---------------------------- MODULE Spec2Model ----------------------------
(***************************************************************************)
(* Batch orchestration of copycat-backend: BatchHandler.CreateBatchAnalyze, *)
(* processBatchTask, processSingleURL and GetBatchStatus together with the *)
(* BatchTaskRepository / ProjectRepository calls they make.                *)
(*                                                                         *)
(* One batch is followed from submission to finalization.  Every goroutine *)
(* is a process with its own program counter; every store call and every   *)
(* remote call is one atomic step.  A store call whose error the code      *)
(* inspects (`if err != nil`) has a failing and a succeeding outcome; a    *)
(* call whose result the code discards is modelled by its SQL effect.      *)
(***************************************************************************)
EXTENDS Integers, Sequences, FiniteSets, TLC

(* ------------------------------ bounds --------------------------------- *)
\* longest URL list of a request that is explored
MaxURLs == 3
\* longest request url of a crawl, in pieces
MaxPieces == 3
\* longest count string explored, in characters
MaxCountLen == 3

\* strings a request may carry as URLs: the empty string, a case pair and
\* one more URL
URLAlphabet == {"", "a", "A", "b"}

\* user ids: 0 is "no authenticated user" (c.GetInt64 of a missing key)
UserIDs == {0, 1}

(* ------------------------- program constants --------------------------- *)
BindMin == 1
BindMax == 10

\* semaphore := make(chan struct{}, 2)
SemaphoreCap == 2

\* concurrency limits of the counter-conservation property
TestLimits == {1, 2, 5}

BatchTaskStatusPending == "pending"
BatchTaskStatusProcessing == "processing"
BatchTaskStatusCompleted == "completed"
BatchTaskStatusFailed == "failed"

ProjectStatusDraft == "draft"
ProjectStatusAnalyzed == "analyzed"
ProjectStatusFailedLit == "failed"

\* SourceContent values: the placeholder, the crawl-failure text, the JSON
\* of title/content/images
ContentCrawling == "crawling"
ContentCrawlFailed == "crawl_failed"
ContentJSON == "json"

CodeSuccess == 0
CodeBadRequest == 400
CodeUnauthorized == 401
CodeForbidden == 403
CodeNotFound == 404
CodeServerError == 500

NoTask == [exists |-> FALSE]
NoRow == [exists |-> FALSE]
NoResp == [code |-> -1]
NoReq == [pending |-> FALSE]

VARIABLES
    req,        \* the request on its way to CreateBatchAnalyze
    reqLen,     \* number of URLs of the request CreateBatchAnalyze handled
    httpResp,   \* the response CreateBatchAnalyze wrote
    task,       \* the batch_tasks row of the batch
    urls,       \* uniqueURLs handed to processBatchTask
    settings,   \* the user's settings handed to processBatchTask
    semCap,     \* capacity of the semaphore channel
    orch,       \* position of processBatchTask
    orchFault,  \* which store call of processBatchTask failed
    next,       \* index of the spawn loop
    loaded,     \* the row FindByID returned to processBatchTask
    wg,         \* sync.WaitGroup counter
    sem,        \* number of tokens in the semaphore channel
    pc,         \* position of each item goroutine
    project,    \* each item's local *model.Project
    rows,       \* the projects rows of the batch, by item
    fault,      \* which step of each item failed
    gbsTask     \* GetBatchStatus: the task row read by FindByIDWithProjects

\* CrawlerManager.Crawl and XHSCrawler.Crawl: one call is followed
VARIABLES
    crawlers,     \* m.crawlers: the crawler registered for each platform
    crawlPC,      \* position of the call
    crawlParts,   \* the url argument, as the list of the pieces it is made of
    platform,     \* the platform detectPlatform returned
    noteID,       \* the note id parseNoteID returned
    html,         \* the body io.ReadAll returned
    crawlResult,  \* what Crawl returned
    invoked,      \* the crawler whose Crawl was called
    requests      \* number of HTTP requests sent

\* one interaction counter of extractNoteFields and its parseCount call
VARIABLES
    countPC,     \* position of the call
    countKey,    \* the key of interactInfo that is read
    countIn,     \* the count string found under that key
    countS,      \* parseCount: s
    multiplier,  \* parseCount: multiplier
    num,         \* parseCount: num, as the decimal it was scanned from
    countOut,    \* what parseCount returned
    counters     \* LikeCount, CollectCount, CommentCount and ShareCount

crawlVars == <<crawlers, crawlPC, crawlParts, platform, noteID, html,
               crawlResult, invoked, requests>>

countVars == <<countPC, countKey, countIn, countS, multiplier, num, countOut,
               counters>>

vars == <<req, reqLen, httpResp, task, urls, settings, semCap, orch, orchFault, next,
          loaded, wg, sem, pc, project, rows, fault, gbsTask, crawlVars,
          countVars>>

batchVars == <<req, reqLen, httpResp, urls, settings, semCap, crawlVars,
               countVars>>
orchVars == <<orch, orchFault, next, loaded>>
gbsVars == <<gbsTask>>

Items == 1..Len(urls)

(* --------------------------- pure helpers ------------------------------ *)
\* The program only compares URLs for equality, so request lists are explored
\* up to renaming: the first occurrences of the non-empty URLs of a list come
\* in the order of URLOrder.
URLOrder == <<"a", "b", "A">>

FirstSeen(input) ==
    LET F[k \in 0..Len(input)] ==
            IF k = 0 THEN <<>>
            ELSE IF input[k] = "" \/ \E j \in 1..Len(F[k - 1]) : F[k - 1][j] = input[k]
                 THEN F[k - 1] ELSE Append(F[k - 1], input[k])
    IN  F[Len(input)]

URLLists ==
    {input \in UNION {[1..n -> URLAlphabet] : n \in 0..MaxURLs} :
        FirstSeen(input) = SubSeq(URLOrder, 1, Len(FirstSeen(input)))}

\* the de-duplication loop of CreateBatchAnalyze: urlSet and uniqueURLs
\* after the first k elements
DedupLoop_NoCase(input, k) ==
    LET Fold(u) == IF u = "A" THEN "a" ELSE u
        F[j \in 0..k] ==
            IF j = 0 THEN [urlSet |-> {}, uniqueURLs |-> <<>>]
            ELSE IF input[j] /= "" /\ Fold(input[j]) \notin F[j - 1].urlSet
                 THEN [urlSet |-> F[j - 1].urlSet \cup {Fold(input[j])},
                       uniqueURLs |-> Append(F[j - 1].uniqueURLs, input[j])]
                 ELSE F[j - 1]
    IN  F[k]

RECURSIVE DedupLoop(_, _)
DedupLoop(input, k) ==
    IF k = 0 THEN [urlSet |-> {}, uniqueURLs |-> <<>>]
    ELSE LET acc == DedupLoop(input, k - 1)
             url == input[k]
         IN  IF url /= "" /\ url \notin acc.urlSet
             THEN [urlSet |-> acc.urlSet \cup {url},
                   uniqueURLs |-> Append(acc.uniqueURLs, url)]
             ELSE acc

UniqueURLs(input) == DedupLoop(input, Len(input)).uniqueURLs

\* binding:"required,min=1,max=10" on BatchAnalyzeRequest.URLs
BindOK(input) == Len(input) >= BindMin /\ Len(input) <= BindMax

\* len(uniqueURLs) == 0
NoValidURL_Never(u) == FALSE
NoValidURL(u) == Len(u) = 0

\* model.BatchTask as CreateBatchAnalyze builds it; the counters take the
\* column default 0
NewBatchTask_Pending(userID, u) ==
    [exists |-> TRUE, user_id |-> userID, total_count |-> Len(u),
     success_count |-> 0, failed_count |-> 0,
     status |-> BatchTaskStatusPending]
NewBatchTask(userID, u) ==
    [exists |-> TRUE, user_id |-> userID, total_count |-> Len(u),
     success_count |-> 0, failed_count |-> 0,
     status |-> BatchTaskStatusProcessing]

\* UPDATE batch_tasks SET success_count = success_count + 1
IncrementSuccessCount_Twice(t) == [t EXCEPT !.success_count = @ + 2]
IncrementSuccessCount_SetsStatus(t) ==
    [t EXCEPT !.success_count = @ + 1,
              !.status = IF t.success_count + 1 = t.total_count
                         THEN BatchTaskStatusCompleted ELSE t.status]
IncrementSuccessCount(t) == [t EXCEPT !.success_count = @ + 1]

\* UPDATE batch_tasks SET failed_count = failed_count + 1
IncrementFailedCount_Lost(t) == t
IncrementFailedCount_Stale(t) ==
    [t EXCEPT !.failed_count = @ + 1, !.success_count = 0]
IncrementFailedCount(t) == [t EXCEPT !.failed_count = @ + 1]

\* the terminal status processBatchTask computes from the reloaded row
TerminalStatus_AnyFailure(t) ==
    IF t.failed_count > 0
    THEN BatchTaskStatusFailed ELSE BatchTaskStatusCompleted
TerminalStatus_Partial(t) ==
    IF t.failed_count = t.total_count THEN BatchTaskStatusFailed
    ELSE IF t.success_count = t.total_count THEN BatchTaskStatusCompleted
    ELSE "partial"
TerminalStatus(t) ==
    IF t.failed_count = t.total_count
    THEN BatchTaskStatusFailed ELSE BatchTaskStatusCompleted

\* wg.Wait() returns
WaitReturns_Early(n) == n <= 1
WaitReturns(n) == n = 0

\* `semaphore <- struct{}{}` can proceed
CanAcquire_OffByOne(n, cap) == n <= cap
CanAcquire(n, cap) == n < cap

\* the draft record processSingleURL starts with
DraftProject(url) ==
    [exists |-> TRUE, source_url |-> url, source_content |-> ContentCrawling,
     status |-> ProjectStatusDraft, analysis |-> "none", images |-> FALSE,
     image_result |-> FALSE]

\* the columns of a project that are persisted (images / image_result are
\* locals of processSingleURL)
RowOf(p) ==
    [exists |-> TRUE, source_url |-> p.source_url,
     source_content |-> p.source_content, status |-> p.status,
     analysis |-> p.analysis]

(* ------------------------------ crawler -------------------------------- *)
\* Strings are TLC strings: Len, \o and SubSeq work on them character by
\* character.
PlatformXiaohongshu == "xiaohongshu"
PlatformWechat == "wechat"
PlatformUnknown == "unknown"
Platforms == {PlatformXiaohongshu, PlatformWechat, PlatformUnknown}

UpperCase == "ABCDEFGHIJKLMNOPQRSTUVWXYZ"
LowerCase == "abcdefghijklmnopqrstuvwxyz"
DecimalDigits == "0123456789"

CharAt(s, k) == SubSeq(s, k, k)

\* strings.IndexByte, 1-based; 0 when c does not occur in s
IndexByte(s, c) ==
    LET at == {k \in 1..Len(s) : CharAt(s, k) = c}
    IN  IF at = {} THEN 0 ELSE CHOOSE k \in at : \A j \in at : k <= j

\* strings.Contains
Contains(s, substr) ==
    \E k \in 1..(Len(s) - Len(substr) + 1) :
        SubSeq(s, k, k + Len(substr) - 1) = substr

\* unicode.ToLower on the letters A-Z
UpperToLower ==
    [c \in {CharAt(UpperCase, k) : k \in 1..Len(UpperCase)} |->
        CharAt(LowerCase, IndexByte(UpperCase, c))]

ToLowerChar(c) == IF c \in DOMAIN UpperToLower THEN UpperToLower[c] ELSE c

\* strings.ToLower
RECURSIVE ToLower(_)
ToLower(s) ==
    IF Len(s) = 0 THEN s
    ELSE ToLowerChar(CharAt(s, 1)) \o ToLower(SubSeq(s, 2, Len(s)))

\* the character class [a-zA-Z0-9]
Alnum ==
    UNION {{CharAt(s, k) : k \in 1..Len(s)} :
             s \in {LowerCase, UpperCase, DecimalDigits}}

IsAlnum(c) == c \in Alnum

\* regexp `<literal>([a-zA-Z0-9]+)`.FindStringSubmatch(s): the leftmost
\* occurrence of the literal that is followed by a character of the class,
\* and the longest run of such characters after it
FindStringSubmatch(literal, s) ==
    LET n == Len(literal)
        at == {k \in 1..(Len(s) - n) :
                 /\ SubSeq(s, k, k + n - 1) = literal
                 /\ IsAlnum(CharAt(s, k + n))}
    IN  IF at = {} THEN [matched |-> FALSE, group |-> ""]
        ELSE LET k == CHOOSE x \in at : \A y \in at : x <= y
                 run == {j \in (k + n)..Len(s) :
                           \A i \in (k + n)..j : IsAlnum(CharAt(s, i))}
                 last == CHOOSE x \in run : \A y \in run : y <= x
             IN  [matched |-> TRUE, group |-> SubSeq(s, k + n, last)]

\* the three patterns of parseNoteID, without their capture group
NoteIDPatterns ==
    <<"xiaohongshu.com/explore/", "xiaohongshu.com/discovery/item/",
      "xhslink.com/">>

\* a variant that matches the patterns against the lower-cased url
parseNoteID_Lower(url) ==
    LET u == ToLower(url)
        hit == {k \in 1..Len(NoteIDPatterns) :
                  FindStringSubmatch(NoteIDPatterns[k], u).matched}
    IN  IF hit = {} THEN [ok |-> FALSE, id |-> ""]
        ELSE [ok |-> TRUE,
              id |-> FindStringSubmatch(
                        NoteIDPatterns[CHOOSE k \in hit : \A j \in hit : k <= j],
                        u).group]

\* XHSCrawler.parseNoteID: the first pattern that matches gives the id
parseNoteID(url) ==
    LET hit == {k \in 1..Len(NoteIDPatterns) :
                  FindStringSubmatch(NoteIDPatterns[k], url).matched}
    IN  IF hit = {} THEN [ok |-> FALSE, id |-> ""]
        ELSE [ok |-> TRUE,
              id |-> FindStringSubmatch(
                        NoteIDPatterns[CHOOSE k \in hit : \A j \in hit : k <= j],
                        url).group]

\* a variant that compares the url as given
detectPlatform_CaseSensitive(url) ==
    IF Contains(url, "xiaohongshu.com") \/ Contains(url, "xhslink.com")
    THEN PlatformXiaohongshu
    ELSE IF Contains(url, "mp.weixin.qq.com") THEN PlatformWechat
    ELSE PlatformUnknown

\* CrawlerManager.detectPlatform
detectPlatform(url) ==
    LET u == ToLower(url)
    IN  IF Contains(u, "xiaohongshu.com") \/ Contains(u, "xhslink.com")
        THEN PlatformXiaohongshu
        ELSE IF Contains(u, "mp.weixin.qq.com") THEN PlatformWechat
        ELSE PlatformUnknown

\* the crawlers: the one NewCrawlerManager registers, and one that a caller
\* can pass to Register
XHSCrawler == [name |-> "XHSCrawler", platform |-> PlatformXiaohongshu]
ExtraCrawlers ==
    {[name |-> "wechatCrawler", platform |-> PlatformWechat]}
NoCrawler == "none"

\* m.crawlers[crawler.Platform()] = crawler
Register(m, crawler) == [m EXCEPT ![crawler.platform] = crawler.name]

\* NewCrawlerManager: an empty map, then Register(NewXHSCrawler())
NewCrawlerManager ==
    Register([p \in Platforms |-> NoCrawler], XHSCrawler)

\* a variant without the check for the unknown platform
ManagerRoute_NoUnknownCheck(m, url) ==
    LET p == detectPlatform(url)
    IN  IF m[p] = NoCrawler
        THEN [kind |-> "unregistered", platform |-> p, crawler |-> NoCrawler]
        ELSE [kind |-> "dispatch", platform |-> p, crawler |-> m[p]]

\* a variant that sends every known platform to the xiaohongshu crawler
ManagerRoute_FirstCrawler(m, url) ==
    LET p == detectPlatform(url)
    IN  IF p = PlatformUnknown
        THEN [kind |-> "unsupported", platform |-> p, crawler |-> NoCrawler]
        ELSE IF m[p] = NoCrawler
        THEN [kind |-> "unregistered", platform |-> p, crawler |-> NoCrawler]
        ELSE [kind |-> "dispatch", platform |-> p,
              crawler |-> m[PlatformXiaohongshu]]

\* the decision of CrawlerManager.Crawl: unknown platform, no crawler in the
\* map, or the crawler the call goes to
ManagerRoute(m, url) ==
    LET p == detectPlatform(url)
    IN  IF p = PlatformUnknown
        THEN [kind |-> "unsupported", platform |-> p, crawler |-> NoCrawler]
        ELSE IF m[p] = NoCrawler
        THEN [kind |-> "unregistered", platform |-> p, crawler |-> NoCrawler]
        ELSE [kind |-> "dispatch", platform |-> p, crawler |-> m[p]]

\* *NoteContent(nil), and the nil error
NoContent == [nil |-> TRUE]
NoError == ""

\* a variant that forgets the reason
Failure_NoReason(p, reason) ==
    [Success |-> FALSE, Platform |-> p, Content |-> NoContent, Error |-> NoError]

\* &CrawlResult{Success: false, Platform: p, Error: reason}
Failure(p, reason) ==
    [Success |-> FALSE, Platform |-> p, Content |-> NoContent, Error |-> reason]

\* &CrawlResult{Success: true, Platform: p, Content: content}
Success(p, content) ==
    [Success |-> TRUE, Platform |-> p, Content |-> content, Error |-> NoError]

\* the pieces request urls are made of, and the url of a list of pieces
URLPieces ==
    {"xiaohongshu.com", "XiaoHongShu.COM", "xhslink.com", "XHSLink.com",
     "mp.weixin.qq.com", "/explore/", "/discovery/item/", "/", "a1B"}

RECURSIVE URLOf(_)
URLOf(parts) ==
    IF parts = <<>> THEN "" ELSE Head(parts) \o URLOf(Tail(parts))

CrawlInputs == UNION {[1..n -> URLPieces] : n \in 1..MaxPieces}

\* a page: what the patterns of extractFromJSON / extractFromHTML find in
\* it.  state: no __INITIAL_STATE__ script, a script that is not JSON, JSON
\* without a "note" object, JSON with one.  title, desc, image: the string
\* fields of the note object.  og_*: the content of the meta tags.  An empty
\* string stands for a field or tag that is absent
Pages ==
    {h \in [state : {"none", "badjson", "nonote", "note"},
            title : {"", "T1"}, desc : {"", "D1"}, image : {"", "I1"},
            og_title : {"", "T2"}, og_description : {"", "D2"},
            og_image : {"", "I2"}] :
        h.state /= "note" => h.title = "" /\ h.desc = "" /\ h.image = ""}
NoPage == [state |-> "unread"]

\* content := &NoteContent{NoteID: noteID, Images: []string{}, ...}
NewNoteContent(id) ==
    [NoteID |-> id, Title |-> "", Content |-> "", Images |-> <<>>]

\* XHSCrawler.findNoteData
findNoteData(h) == h.state = "note"

\* XHSCrawler.extractNoteFields: title, desc and imageList
extractNoteFields(data, content) ==
    [content EXCEPT
        !.Title = IF data.title /= "" THEN data.title ELSE @,
        !.Content = IF data.desc /= "" THEN data.desc ELSE @,
        !.Images = IF data.image /= "" THEN Append(@, data.image) ELSE @]

\* XHSCrawler.extractFromJSON
extractFromJSON(h, content) ==
    IF h.state = "none"
    THEN [err |-> "no initial state found", content |-> content]
    ELSE IF h.state = "badjson"
    THEN [err |-> "failed to parse json", content |-> content]
    ELSE [err |-> NoError,
          content |-> IF findNoteData(h) THEN extractNoteFields(h, content)
                                         ELSE content]

\* XHSCrawler.extractFromHTML: og:title and og:description overwrite,
\* og:image is appended
extractFromHTML(h, content) ==
    [err |-> NoError,
     content |-> [content EXCEPT
        !.Title = IF h.og_title /= "" THEN h.og_title ELSE @,
        !.Content = IF h.og_description /= "" THEN h.og_description ELSE @,
        !.Images = IF h.og_image /= "" THEN Append(@, h.og_image) ELSE @]]

\* a variant that returns whatever the two methods left
parseContent_NoCheck(h, id) ==
    [content |-> extractFromHTML(h, extractFromJSON(h, NewNoteContent(id)).content).content,
     err |-> NoError]

\* XHSCrawler.parseContent
parseContent(h, id) ==
    LET r1 == extractFromJSON(h, NewNoteContent(id))
        r2 == extractFromHTML(h, r1.content)
    IN  IF r1.err = NoError /\ r1.content.Content /= ""
        THEN [content |-> r1.content, err |-> NoError]
        ELSE IF r2.err = NoError /\ r2.content.Content /= ""
        THEN [content |-> r2.content, err |-> NoError]
        ELSE IF r2.content.Title = "" /\ r2.content.Content = ""
        THEN [content |-> NoContent,
              err |-> "failed to extract content from page"]
        ELSE [content |-> r2.content, err |-> NoError]

\* the state before CrawlerManager.Crawl is called
CrawlIdle ==
    /\ crawlers = NewCrawlerManager
    /\ crawlPC = "idle"
    /\ crawlParts = <<>>
    /\ platform = PlatformUnknown
    /\ noteID = ""
    /\ html = NoPage
    /\ crawlResult = NoContent
    /\ invoked = NoCrawler
    /\ requests = 0

(* ----------------------------- parseCount ------------------------------ *)
\* The units 万 and 千 are written "w" and "k".  Count strings are made of
\* digits, ".", "-", "+", the space, the two units and letters other than
\* e, E, p, P, x, X, n, N, i, I, so the exponent, hexadecimal, NaN and Inf
\* branches of the float scanner are never taken.
UnitWan == "w"
UnitQian == "k"
MultiplierWan == 10000
MultiplierQian == 1000

IsDigit(c) == IndexByte(DecimalDigits, c) /= 0
DigitOf(c) == IndexByte(DecimalDigits, c) - 1

RECURSIVE TrimLeft(_)
TrimLeft(s) ==
    IF Len(s) > 0 /\ CharAt(s, 1) = " " THEN TrimLeft(SubSeq(s, 2, Len(s)))
    ELSE s

RECURSIVE TrimRight(_)
TrimRight(s) ==
    IF Len(s) > 0 /\ CharAt(s, Len(s)) = " "
    THEN TrimRight(SubSeq(s, 1, Len(s) - 1))
    ELSE s

\* strings.TrimSpace
TrimSpace(s) == TrimRight(TrimLeft(s))

\* strings.ReplaceAll(s, old, "") for a one-character old
RECURSIVE ReplaceAll(_, _)
ReplaceAll(s, old) ==
    IF Len(s) = 0 THEN s
    ELSE (IF CharAt(s, 1) = old THEN "" ELSE CharAt(s, 1))
            \o ReplaceAll(SubSeq(s, 2, Len(s)), old)

\* a variant that knows the ten-thousand unit only
UnitMultiplier_WanOnly(s) ==
    IF Contains(s, UnitWan)
    THEN [multiplier |-> MultiplierWan, s |-> ReplaceAll(s, UnitWan)]
    ELSE [multiplier |-> 1, s |-> s]

\* the unit branch of parseCount: the multiplier and the string without
\* the unit
UnitMultiplier(s) ==
    IF Contains(s, UnitWan)
    THEN [multiplier |-> MultiplierWan, s |-> ReplaceAll(s, UnitWan)]
    ELSE IF Contains(s, UnitQian)
    THEN [multiplier |-> MultiplierQian, s |-> ReplaceAll(s, UnitQian)]
    ELSE [multiplier |-> 1, s |-> s]

\* number of digits of s from position from on
DigitRun(s, from) ==
    LET run == {j \in (from - 1)..Len(s) :
                  \A i \in from..j : IsDigit(CharAt(s, i))}
    IN  (CHOOSE x \in run : \A y \in run : y <= x) - (from - 1)

\* fmt (*ss).floatToken: an optional sign, digits, and an optional period
\* followed by digits
floatToken(s) ==
    LET sign == IF Len(s) > 0 /\ CharAt(s, 1) \in {"+", "-"} THEN 1 ELSE 0
        int == sign + DigitRun(s, sign + 1)
        frac == IF int < Len(s) /\ CharAt(s, int + 1) = "."
                THEN int + 1 + DigitRun(s, int + 2) ELSE int
    IN  SubSeq(s, 1, frac)

\* the value of a string of digits
RECURSIVE DigitsValue(_)
DigitsValue(s) ==
    IF Len(s) = 0 THEN 0
    ELSE 10 * DigitsValue(SubSeq(s, 1, Len(s) - 1)) + DigitOf(CharAt(s, Len(s)))

\* var num float64 before the scan
ZeroFloat == [neg |-> FALSE, d |-> 0, k |-> 0]

\* strconv.ParseFloat on a token of floatToken: the decimal d / 10^k with
\* its sign; a token without a digit is an error
ParseFloat(token) ==
    LET neg == Len(token) > 0 /\ CharAt(token, 1) = "-"
        body == IF Len(token) > 0 /\ CharAt(token, 1) \in {"+", "-"}
                THEN SubSeq(token, 2, Len(token)) ELSE token
        dot == IndexByte(body, ".")
        int == IF dot = 0 THEN body ELSE SubSeq(body, 1, dot - 1)
        frac == IF dot = 0 THEN "" ELSE SubSeq(body, dot + 1, Len(body))
    IN  IF Len(int) + Len(frac) = 0
        THEN [ok |-> FALSE, value |-> ZeroFloat]
        ELSE [ok |-> TRUE,
              value |-> [neg |-> neg, d |-> DigitsValue(int \o frac),
                         k |-> Len(frac)]]

\* fmt.Sscanf(s, "%f", &num) with its error ignored: leading spaces are
\* skipped, and num keeps its zero value when the token does not parse
Sscanf(s) ==
    LET r == ParseFloat(floatToken(TrimLeft(s)))
    IN  IF r.ok THEN r.value ELSE ZeroFloat

RECURSIVE Pow(_, _)
Pow(b, n) == IF n = 0 THEN 1 ELSE b * Pow(b, n - 1)

\* 2^n modulo t
RECURSIVE Pow2Mod(_, _)
Pow2Mod(n, t) == IF n = 0 THEN 1 % t ELSE (2 * Pow2Mod(n - 1, t)) % t

\* floor(log2(a / b)) for positive integers
RECURSIVE FloorLog2Up(_, _, _)
FloorLog2Up(a, b, j) ==
    IF b * Pow(2, j + 1) <= a THEN FloorLog2Up(a, b, j + 1) ELSE j
RECURSIVE FloorLog2Down(_, _, _)
FloorLog2Down(a, b, j) ==
    IF a * Pow(2, j) < b THEN FloorLog2Down(a, b, j + 1) ELSE 0 - j
FloorLog2(a, b) ==
    IF a >= b THEN FloorLog2Up(a, b, 0) ELSE FloorLog2Down(a, b, 0)

\* int(float64(d / 10^k) * float64(m)) for d >= 0: IEEE-754 binary64 with
\* round-to-nearest, for d < 10^5, k <= 4 and m <= 10^4.  When d*m/10^k is
\* not an integer the rounding errors are too small to change the integer
\* part.  When it is an integer n, the nearest double of d/10^k has the
\* 53-bit significand round(d * 2^e / 10^k), e = 52 - floor(log2(d/10^k));
\* if that rounding went down by r/10^k, the product lies m*r/10^k * 2^-e
\* below n and rounds to the double below n, whose integer part is n - 1,
\* exactly when that distance exceeds half the spacing of the doubles
\* below n.
Float64MulToInt(d, k, m) ==
    LET t == Pow(10, k)
        n == (d * m) \div t
    IN  IF (d * m) % t /= 0 \/ d % t = 0 \/ n = 0 THEN n
        ELSE LET l == FloorLog2(d, t)
                 r == (d * Pow2Mod(52 - l, t)) % t
                 top == FloorLog2(n, 1)
                 below == IF n = Pow(2, top) THEN top - 1 ELSE top
             IN  IF r = 0 \/ 2 * r > t THEN n
                 ELSE IF m * r > t * Pow(2, below - l - 1) THEN n - 1
                 ELSE n

\* int(num * float64(multiplier)): the conversion truncates toward zero
MulToInt(x, m) ==
    LET n == Float64MulToInt(x.d, x.k, m)
    IN  IF x.neg THEN 0 - n ELSE n

\* the keys of interactInfo and the counter each one fills
CounterOf ==
    [likedCount |-> "LikeCount", collectedCount |-> "CollectCount",
     commentCount |-> "CommentCount", shareCount |-> "ShareCount"]
ZeroCounters ==
    [LikeCount |-> 0, CollectCount |-> 0, CommentCount |-> 0, ShareCount |-> 0]

\* the count strings explored: the ones the specification names, a few with
\* a fraction, and every string over CountAlphabet up to MaxCountLen
CountAlphabet == {"5", ".", "-", " ", "a", UnitWan, UnitQian}
CountExamples ==
    {"1.2w", "3k", "42", "", "abc", "1.13w", "2.01w", "0.57w", "1.5k",
     " 12 ", "+7", "-1.2w", "10w+"}
RECURSIVE StringsOfLen(_)
StringsOfLen(n) ==
    IF n = 0 THEN {""}
    ELSE {s \o c : s \in StringsOfLen(n - 1), c \in CountAlphabet}
CountInputs == CountExamples \cup UNION {StringsOfLen(n) : n \in 0..MaxCountLen}

\* the state before extractNoteFields reads interactInfo
CountIdle ==
    /\ countPC = "idle"
    /\ countKey = ""
    /\ countIn = ""
    /\ countS = ""
    /\ multiplier = 1
    /\ num = ZeroFloat
    /\ countOut = 0
    /\ counters = ZeroCounters

(* ------------------------------ Init ----------------------------------- *)
InitCommon ==
    /\ req = NoReq
    /\ reqLen = 0
    /\ httpResp = NoResp
    /\ task = NoTask
    /\ urls = <<>>
    /\ settings = [llmKey |-> FALSE, imageKey |-> FALSE]
    /\ orch = "none"
    /\ orchFault = "none"
    /\ next = 1
    /\ loaded = NoTask
    /\ wg = 0
    /\ sem = 0
    /\ pc = <<>>
    /\ project = <<>>
    /\ rows = <<>>
    /\ fault = <<>>
    /\ gbsTask = NoTask
    /\ CrawlIdle
    /\ CountIdle

Init == InitCommon /\ semCap = SemaphoreCap

\* the same program with the limit of the semaphore set to 1, 2 or 5
InitLimits == InitCommon /\ semCap \in TestLimits

(* ----------------------- CreateBatchAnalyze ---------------------------- *)
\* a client sends POST /batch: the authenticated user, the JSON body and the
\* settings row of that user
SendRequest ==
    /\ req = NoReq
    /\ httpResp = NoResp
    /\ \E userID \in UserIDs, input \in URLLists, llmKey \in BOOLEAN,
          imageKey \in BOOLEAN :
        req' = [pending |-> TRUE, userID |-> userID, urls |-> input,
                llmKey |-> llmKey, imageKey |-> imageKey]
    /\ UNCHANGED <<httpResp, reqLen, task, urls, settings, semCap, orchVars, wg,
                   sem, pc, project, rows, fault, gbsVars, crawlVars,
                   countVars>>

\* the handler, from the userID check to the response
CreateBatchAnalyze ==
    /\ req /= NoReq
    /\ req' = NoReq
    /\ reqLen' = Len(req.urls)
    /\ \E createOK \in BOOLEAN :
        LET uniqueURLs == UniqueURLs(req.urls)
            reject(code, msg) ==
                /\ httpResp' = [code |-> code, msg |-> msg]
                /\ UNCHANGED <<task, urls, settings, orch, pc, project, rows, fault>>
        IN  IF req.userID = 0 THEN reject(CodeUnauthorized, "login")
            ELSE IF ~BindOK(req.urls) THEN reject(CodeBadRequest, "bind")
            ELSE IF ~req.llmKey THEN reject(CodeBadRequest, "llm_key")
            ELSE IF NoValidURL(uniqueURLs) THEN reject(CodeBadRequest, "no_valid_url")
            ELSE IF ~createOK THEN reject(CodeServerError, "create_failed")
            ELSE /\ task' = NewBatchTask(req.userID, uniqueURLs)
                 /\ urls' = uniqueURLs
                 /\ settings' = [llmKey |-> req.llmKey, imageKey |-> req.imageKey]
                 /\ orch' = "loop"
                 /\ pc' = [i \in 1..Len(uniqueURLs) |-> "unborn"]
                 /\ project' = [i \in 1..Len(uniqueURLs) |-> NoRow]
                 /\ rows' = [i \in 1..Len(uniqueURLs) |-> NoRow]
                 /\ fault' = [i \in 1..Len(uniqueURLs) |-> "none"]
                 /\ httpResp' = [code |-> CodeSuccess, msg |-> "success",
                                 total_count |-> Len(uniqueURLs),
                                 status |-> BatchTaskStatusProcessing]
    /\ UNCHANGED <<semCap, orchFault, next, loaded, wg, sem, gbsVars, crawlVars,
                   countVars>>

(* ------------------------- processBatchTask ---------------------------- *)
\* one iteration of the spawn loop: wg.Add(1); go func(targetURL)
SpawnItem ==
    /\ orch = "loop"
    /\ next <= Len(urls)
    /\ wg' = wg + 1
    /\ pc' = [pc EXCEPT ![next] = "acquire"]
    /\ next' = next + 1
    /\ UNCHANGED <<batchVars, task, orch, orchFault, loaded, sem, project, rows,
                   fault, gbsVars>>

LoopExit ==
    /\ orch = "loop"
    /\ next > Len(urls)
    /\ orch' = "wait"
    /\ UNCHANGED <<batchVars, task, orchFault, next, loaded, wg, sem, pc, project,
                   rows, fault, gbsVars>>

\* a variant without the join: the loop is followed by the reload at once
WgWait_NoJoin ==
    /\ orch = "wait"
    /\ orch' = "find"
    /\ UNCHANGED <<batchVars, task, orchFault, next, loaded, wg, sem, pc, project,
                   rows, fault, gbsVars>>

\* wg.Wait()
WgWait ==
    /\ orch = "wait"
    /\ WaitReturns(wg)
    /\ orch' = "find"
    /\ UNCHANGED <<batchVars, task, orchFault, next, loaded, wg, sem, pc, project,
                   rows, fault, gbsVars>>

\* task, err := h.batchTaskRepo.FindByID(batchID)
ReloadTask ==
    /\ orch = "find"
    /\ \E ok \in BOOLEAN :
        IF ok
        THEN /\ loaded' = task
             /\ orch' = "update"
             /\ UNCHANGED orchFault
        ELSE /\ orch' = "returned"
             /\ orchFault' = "find"
             /\ UNCHANGED loaded
    /\ UNCHANGED <<batchVars, task, next, wg, sem, pc, project, rows, fault, gbsVars>>

\* task.Status = ...; h.batchTaskRepo.Update(task)  (db.Save: every column)
FinalizeTask ==
    /\ orch = "update"
    /\ LET t == [loaded EXCEPT !.status = TerminalStatus(loaded)]
       IN  /\ loaded' = t
           /\ \E ok \in BOOLEAN :
                IF ok
                THEN task' = t /\ UNCHANGED orchFault
                ELSE orchFault' = "update" /\ UNCHANGED task
    /\ orch' = "returned"
    /\ UNCHANGED <<batchVars, next, wg, sem, pc, project, rows, fault, gbsVars>>

(* -------------------------- item goroutine ----------------------------- *)
itemFrame == <<batchVars, orchVars, gbsVars>>

\* semaphore <- struct{}{}
Acquire(i) ==
    /\ pc[i] = "acquire"
    /\ CanAcquire(sem, semCap)
    /\ sem' = sem + 1
    /\ pc' = [pc EXCEPT ![i] = "create"]
    /\ UNCHANGED <<itemFrame, task, wg, project, rows, fault>>

\* processSingleURL step 1: h.projectRepo.Create(ctx, project)
CreateProject(i) ==
    /\ pc[i] = "create"
    /\ LET p == DraftProject(urls[i])
       IN  /\ project' = [project EXCEPT ![i] = p]
           /\ \E ok \in BOOLEAN :
                IF ok
                THEN /\ rows' = [rows EXCEPT ![i] = RowOf(p)]
                     /\ pc' = [pc EXCEPT ![i] = "crawl"]
                     /\ UNCHANGED fault
                ELSE /\ pc' = [pc EXCEPT ![i] = "incFailed"]
                     /\ fault' = [fault EXCEPT ![i] = "create"]
                     /\ UNCHANGED rows
    /\ UNCHANGED <<itemFrame, task, wg, sem>>

\* a variant that leaves the status of the record alone when the crawl
\* fails
Crawl_KeepsStatus(i) ==
    /\ pc[i] = "crawl"
    /\ \E ok \in BOOLEAN, images \in BOOLEAN :
        IF ok
        THEN /\ project' = [project EXCEPT ![i].source_content = ContentJSON,
                                           ![i].images = images]
             /\ pc' = [pc EXCEPT ![i] = "analyze"]
             /\ UNCHANGED fault
        ELSE /\ images = FALSE
             /\ project' = [project EXCEPT
                                ![i].source_content = ContentCrawlFailed]
             /\ pc' = [pc EXCEPT ![i] = "failUpdate"]
             /\ fault' = [fault EXCEPT ![i] = "crawl"]
    /\ UNCHANGED <<itemFrame, task, wg, sem, rows>>

\* step 2 and 3: h.contentService.CrawlOnly(ctx, url)
Crawl(i) ==
    /\ pc[i] = "crawl"
    /\ \E ok \in BOOLEAN, images \in BOOLEAN :
        IF ok
        THEN /\ project' = [project EXCEPT ![i].source_content = ContentJSON,
                                           ![i].images = images]
             /\ pc' = [pc EXCEPT ![i] = "analyze"]
             /\ UNCHANGED fault
        ELSE /\ images = FALSE
             /\ project' = [project EXCEPT ![i].status = ProjectStatusFailedLit,
                                           ![i].source_content = ContentCrawlFailed]
             /\ pc' = [pc EXCEPT ![i] = "failUpdate"]
             /\ fault' = [fault EXCEPT ![i] = "crawl"]
    /\ UNCHANGED <<itemFrame, task, wg, sem, rows>>

\* a variant that only logs a failed text analysis and goes on
AnalyzeContent_GoesOn(i) ==
    /\ pc[i] = "analyze"
    /\ \E ok \in BOOLEAN :
        /\ pc' = [pc EXCEPT ![i] =
                    IF project[i].images /\ settings.imageKey
                    THEN "images" ELSE "save"]
        /\ fault' = [fault EXCEPT ![i] = IF ok THEN "none" ELSE "analyze"]
        /\ UNCHANGED project
    /\ UNCHANGED <<itemFrame, task, wg, sem, rows>>

\* step 4: textClient.AnalyzeContent(title, content)
AnalyzeContent(i) ==
    /\ pc[i] = "analyze"
    /\ \E ok \in BOOLEAN :
        IF ok
        THEN /\ pc' = [pc EXCEPT ![i] =
                        IF project[i].images /\ settings.imageKey
                        THEN "images" ELSE "save"]
             /\ UNCHANGED <<project, fault>>
        ELSE /\ project' = [project EXCEPT ![i].status = ProjectStatusDraft]
             /\ pc' = [pc EXCEPT ![i] = "failUpdate"]
             /\ fault' = [fault EXCEPT ![i] = "analyze"]
    /\ UNCHANGED <<itemFrame, task, wg, sem, rows>>

\* h.projectRepo.Update(ctx, project) on the crawl-failure and the
\* analysis-failure path (result discarded)
FailUpdate(i) ==
    /\ pc[i] = "failUpdate"
    /\ rows' = [rows EXCEPT ![i] = RowOf(project[i])]
    /\ pc' = [pc EXCEPT ![i] = "incFailed"]
    /\ UNCHANGED <<itemFrame, task, wg, sem, project, fault>>

\* a variant in which a failed image analysis aborts the item
AnalyzeImages_Aborts(i) ==
    /\ pc[i] = "images"
    /\ \E ok \in BOOLEAN :
        /\ project' = [project EXCEPT ![i].image_result = ok]
        /\ pc' = [pc EXCEPT ![i] = IF ok THEN "save" ELSE "incFailed"]
    /\ UNCHANGED <<itemFrame, task, wg, sem, rows, fault>>

\* step 5: imageClient.AnalyzeImages(images); a failure is only logged
AnalyzeImages(i) ==
    /\ pc[i] = "images"
    /\ \E ok \in BOOLEAN :
        project' = [project EXCEPT ![i].image_result = ok]
    /\ pc' = [pc EXCEPT ![i] = "save"]
    /\ UNCHANGED <<itemFrame, task, wg, sem, rows, fault>>

\* a variant that only logs a failed final write
SaveAnalysis_LogsOnly(i) ==
    /\ pc[i] = "save"
    /\ LET p == [project[i] EXCEPT
                    !.analysis = IF project[i].image_result
                                 THEN "text+image" ELSE "text",
                    !.status = ProjectStatusAnalyzed]
       IN  /\ project' = [project EXCEPT ![i] = p]
           /\ \E ok \in BOOLEAN :
                IF ok
                THEN rows' = [rows EXCEPT ![i] = RowOf(p)]
                ELSE UNCHANGED rows
    /\ pc' = [pc EXCEPT ![i] = "incSuccess"]
    /\ UNCHANGED <<itemFrame, task, wg, sem, fault>>

\* a variant that tries the final write again when it fails
SaveAnalysis_Retries(i) ==
    /\ pc[i] = "save"
    /\ LET p == [project[i] EXCEPT
                    !.analysis = IF project[i].image_result
                                 THEN "text+image" ELSE "text",
                    !.status = ProjectStatusAnalyzed]
       IN  /\ project' = [project EXCEPT ![i] = p]
           /\ \E ok \in BOOLEAN :
                IF ok
                THEN /\ rows' = [rows EXCEPT ![i] = RowOf(p)]
                     /\ pc' = [pc EXCEPT ![i] = "incSuccess"]
                     /\ UNCHANGED fault
                ELSE /\ fault' = [fault EXCEPT ![i] = "save"]
                     /\ UNCHANGED <<pc, rows>>
    /\ UNCHANGED <<itemFrame, task, wg, sem>>

\* step 6: merge, project.Status = analyzed, h.projectRepo.Update
SaveAnalysis(i) ==
    /\ pc[i] = "save"
    /\ LET p == [project[i] EXCEPT
                    !.analysis = IF project[i].image_result
                                 THEN "text+image" ELSE "text",
                    !.status = ProjectStatusAnalyzed]
       IN  /\ project' = [project EXCEPT ![i] = p]
           /\ \E ok \in BOOLEAN :
                IF ok
                THEN /\ rows' = [rows EXCEPT ![i] = RowOf(p)]
                     /\ pc' = [pc EXCEPT ![i] = "incSuccess"]
                     /\ UNCHANGED fault
                ELSE /\ pc' = [pc EXCEPT ![i] = "incFailed"]
                     /\ fault' = [fault EXCEPT ![i] = "save"]
                     /\ UNCHANGED rows
    /\ UNCHANGED <<itemFrame, task, wg, sem>>

\* step 7: h.batchTaskRepo.IncrementSuccessCount(batchID), then
\* processSingleURL returns and its locals are gone
IncSuccess(i) ==
    /\ pc[i] = "incSuccess"
    /\ task' = IncrementSuccessCount(task)
    /\ pc' = [pc EXCEPT ![i] = "release"]
    /\ project' = [project EXCEPT ![i] = NoRow]
    /\ UNCHANGED <<itemFrame, wg, sem, rows, fault>>

\* a variant without the return after the failure increment
IncFailed_FallsThrough(i) ==
    /\ pc[i] = "incFailed"
    /\ task' = IncrementFailedCount(task)
    /\ pc' = [pc EXCEPT ![i] = "incSuccess"]
    /\ UNCHANGED <<itemFrame, wg, sem, project, rows, fault>>

\* h.batchTaskRepo.IncrementFailedCount(batchID); return  (every failure path)
IncFailed(i) ==
    /\ pc[i] = "incFailed"
    /\ task' = IncrementFailedCount(task)
    /\ pc' = [pc EXCEPT ![i] = "release"]
    /\ project' = [project EXCEPT ![i] = NoRow]
    /\ UNCHANGED <<itemFrame, wg, sem, rows, fault>>

\* a variant that gives the slot back only at the end of a successful item
Release_OnSuccessOnly(i) ==
    /\ pc[i] = "release"
    /\ sem' = IF fault[i] = "none" THEN sem - 1 ELSE sem
    /\ pc' = [pc EXCEPT ![i] = "wgDone"]
    /\ UNCHANGED <<itemFrame, task, wg, project, rows, fault>>

\* defer func() { <-semaphore }()
Release(i) ==
    /\ pc[i] = "release"
    /\ sem' = sem - 1
    /\ pc' = [pc EXCEPT ![i] = "wgDone"]
    /\ UNCHANGED <<itemFrame, task, wg, project, rows, fault>>

\* defer wg.Done()
WgDone(i) ==
    /\ pc[i] = "wgDone"
    /\ wg' = wg - 1
    /\ pc' = [pc EXCEPT ![i] = "done"]
    /\ UNCHANGED <<itemFrame, task, sem, project, rows, fault>>

(* --------------------------- GetBatchStatus ---------------------------- *)
\* The caller is the authenticated owner of the batch; the 401 / 400 / 403
\* answers of the handler read and write nothing.
gbsFrame == <<batchVars, orchVars, task, wg, sem, pc, project, rows, fault>>

\* []BatchProjectResponse built from task.Projects: ID, SourceURL, Status;
\* Title and ErrorMessage are never assigned
BatchProjects(rs) ==
    {[id |-> i, source_url |-> rs[i].source_url, status |-> rs[i].status,
      title |-> "", error_message |-> ""] :
        i \in {j \in DOMAIN rs : rs[j].exists}}

\* the BatchTaskStatusResponse built from the task row and its projects
BatchTaskStatusResponse(t, rs) ==
    [code |-> CodeSuccess,
     total_count |-> t.total_count,
     success_count |-> t.success_count,
     failed_count |-> t.failed_count,
     status |-> t.status,
     projects |-> BatchProjects(rs)]

\* FindByIDWithProjects, first query: the batch_tasks row
GetBatchStatusBegin ==
    /\ ~gbsTask.exists
    /\ task.exists
    /\ gbsTask' = task
    /\ UNCHANGED gbsFrame

\* the response GetBatchStatus writes when the second query of
\* FindByIDWithProjects (the projects rows) runs in the current state
GbsResponse == BatchTaskStatusResponse(gbsTask, rows)

\* FindByIDWithProjects, second query; the response is written and the
\* request is over
GetBatchStatusEnd ==
    /\ gbsTask.exists
    /\ gbsTask' = NoTask
    /\ UNCHANGED gbsFrame

(* ------------------------------- Next ---------------------------------- *)
ItemStep(i) ==
    \/ Acquire(i)
    \/ CreateProject(i)
    \/ Crawl(i)
    \/ AnalyzeContent(i)
    \/ FailUpdate(i)
    \/ AnalyzeImages(i)
    \/ SaveAnalysis(i)
    \/ IncSuccess(i)
    \/ IncFailed(i)
    \/ Release(i)
    \/ WgDone(i)

Next ==
    \/ SendRequest
    \/ CreateBatchAnalyze
    \/ SpawnItem
    \/ LoopExit
    \/ WgWait
    \/ ReloadTask
    \/ FinalizeTask
    \/ \E i \in Items : ItemStep(i)
    \/ GetBatchStatusBegin
    \/ GetBatchStatusEnd

Spec == Init /\ [][Next]_vars

SpecLimits == InitLimits /\ [][Next]_vars

\* the goroutine of processBatchTask
Orchestrator == SpawnItem \/ LoopExit \/ WgWait \/ ReloadTask \/ FinalizeTask

\* The Go scheduler runs every goroutine that can run, and every remote call
\* and store call of an item returns: the orchestrator and each item
\* goroutine take their next step when it stays possible.  Clients (the
\* batch request, the status requests) are under no obligation.
Fairness ==
    /\ WF_vars(Orchestrator)
    /\ \A i \in 1..MaxURLs : WF_vars(i \in Items /\ ItemStep(i))

\* the batch without status requests, which only read
NextBatch ==
    \/ SendRequest
    \/ CreateBatchAnalyze
    \/ Orchestrator
    \/ \E i \in Items : ItemStep(i)

SpecLive == Init /\ [][NextBatch]_vars /\ Fairness

TypeOK ==
    /\ wg \in 0..Len(urls)
    /\ sem \in 0..semCap
    /\ next \in 1..(Len(urls) + 1)

(* --------------------- CrawlerManager / XHSCrawler --------------------- *)
\* the variables of the batch, which a crawl does not touch
batchState == <<req, reqLen, httpResp, task, urls, settings, semCap, orch,
                orchFault, next, loaded, wg, sem, pc, project, rows, fault,
                gbsTask>>

\* everything a crawl does not touch
outsideCrawl == <<batchState, countVars>>

\* the url argument of the call
crawlURL == URLOf(crawlParts)

\* a caller registers one more crawler before the call
CallRegister ==
    /\ crawlPC = "idle"
    /\ \E c \in ExtraCrawlers :
        /\ crawlers[c.platform] /= c.name
        /\ crawlers' = Register(crawlers, c)
    /\ UNCHANGED <<outsideCrawl, crawlPC, crawlParts, platform, noteID, html,
                   crawlResult, invoked, requests>>

\* CrawlerManager.Crawl(ctx, url) up to the call of the platform crawler
ManagerCrawl ==
    /\ crawlPC = "idle"
    /\ \E parts \in CrawlInputs :
        \E route \in {ManagerRoute(crawlers, URLOf(parts))} :
            /\ crawlParts' = parts
            /\ platform' = route.platform
            /\ invoked' = route.crawler
            /\ IF route.kind = "unsupported"
               THEN /\ crawlResult' = Failure(PlatformUnknown,
                                              "unsupported platform")
                    /\ crawlPC' = "returned"
               ELSE IF route.kind = "unregistered"
               THEN /\ crawlResult' =
                        Failure(route.platform,
                                "no crawler registered for platform: "
                                    \o route.platform)
                    /\ crawlPC' = "returned"
               ELSE /\ crawlPC' = IF route.crawler = XHSCrawler.name
                                  THEN "parseNoteID" ELSE "extra"
                    /\ UNCHANGED crawlResult
    /\ UNCHANGED <<outsideCrawl, crawlers, noteID, html, requests>>

\* return crawler.Crawl(ctx, url) for a crawler added by Register: it
\* answers with an outcome of its own, as the Crawler interface asks
ExtraCrawl ==
    /\ crawlPC = "extra"
    /\ \E ok \in BOOLEAN :
        crawlResult' =
            IF ok THEN Success(platform, [NewNoteContent("")
                                            EXCEPT !.Title = invoked])
                  ELSE Failure(platform, invoked \o ": failed")
    /\ crawlPC' = "returned"
    /\ UNCHANGED <<outsideCrawl, crawlers, crawlParts, platform, noteID, html,
                   invoked, requests>>

\* XHSCrawler.Crawl: noteID, err := c.parseNoteID(url)
XhsParseNoteID ==
    /\ crawlPC = "parseNoteID"
    /\ LET r == parseNoteID(crawlURL)
       IN  IF r.ok
           THEN /\ noteID' = r.id
                /\ crawlPC' = "buildRequest"
                /\ UNCHANGED crawlResult
           ELSE /\ crawlResult' = Failure(PlatformXiaohongshu,
                                    "invalid xiaohongshu url: " \o crawlURL)
                /\ crawlPC' = "returned"
                /\ UNCHANGED noteID
    /\ UNCHANGED <<outsideCrawl, crawlers, crawlParts, platform, html, invoked,
                   requests>>

\* req, err := c.buildRequest(ctx, url)
XhsBuildRequest ==
    /\ crawlPC = "buildRequest"
    /\ \E ok \in BOOLEAN :
        IF ok
        THEN crawlPC' = "do" /\ UNCHANGED crawlResult
        ELSE /\ crawlResult' = Failure(PlatformXiaohongshu,
                                       "failed to build request")
             /\ crawlPC' = "returned"
    /\ UNCHANGED <<outsideCrawl, crawlers, crawlParts, platform, noteID, html,
                   invoked, requests>>

\* resp, err := c.client.Do(req) and the check of resp.StatusCode
XhsDo ==
    /\ crawlPC = "do"
    /\ requests' = requests + 1
    /\ \E answer \in {"error", "200", "404"} :
        IF answer = "error"
        THEN /\ crawlResult' = Failure(PlatformXiaohongshu,
                                       "failed to fetch page")
             /\ crawlPC' = "returned"
        ELSE IF answer /= "200"
        THEN /\ crawlResult' = Failure(PlatformXiaohongshu,
                                   "unexpected status code: " \o answer)
             /\ crawlPC' = "returned"
        ELSE crawlPC' = "readAll" /\ UNCHANGED crawlResult
    /\ UNCHANGED <<outsideCrawl, crawlers, crawlParts, platform, noteID, html,
                   invoked>>

\* body, err := io.ReadAll(resp.Body)
XhsReadAll ==
    /\ crawlPC = "readAll"
    /\ \E ok \in BOOLEAN, h \in Pages :
        IF ok
        THEN /\ html' = h
             /\ crawlPC' = "parseContent"
             /\ UNCHANGED crawlResult
        ELSE /\ h.state = "none" /\ h.og_title = "" /\ h.og_description = ""
             /\ h.og_image = ""
             /\ crawlResult' = Failure(PlatformXiaohongshu,
                                       "failed to read response")
             /\ crawlPC' = "returned"
             /\ UNCHANGED html
    /\ UNCHANGED <<outsideCrawl, crawlers, crawlParts, platform, noteID, invoked,
                   requests>>

\* content, err := c.parseContent(string(body), noteID, url) and the return
XhsParseContent ==
    /\ crawlPC = "parseContent"
    /\ LET r == parseContent(html, noteID)
       IN  crawlResult' =
            IF r.err /= NoError
            THEN Failure(PlatformXiaohongshu,
                         "failed to parse content: " \o r.err)
            ELSE Success(PlatformXiaohongshu, r.content)
    /\ crawlPC' = "returned"
    /\ UNCHANGED <<outsideCrawl, crawlers, crawlParts, platform, noteID, html,
                   invoked, requests>>

NextCrawl ==
    \/ CallRegister
    \/ ManagerCrawl
    \/ ExtraCrawl
    \/ XhsParseNoteID
    \/ XhsBuildRequest
    \/ XhsDo
    \/ XhsReadAll
    \/ XhsParseContent

\* one call of CrawlerManager.Crawl
SpecCrawl == Init /\ [][NextCrawl]_vars

(* ------------------- extractNoteFields / parseCount -------------------- *)
\* everything the extraction of a counter does not touch
outsideCount == <<batchState, crawlVars>>

\* if v, ok := interactInfo[key].(string); ok { ... c.parseCount(v) }
CallParseCount ==
    /\ countPC = "idle"
    /\ \E key \in DOMAIN CounterOf, s \in CountInputs :
        /\ countKey' = key
        /\ countIn' = s
        /\ countS' = s
    /\ countPC' = "trim"
    /\ UNCHANGED <<outsideCount, multiplier, num, countOut, counters>>

\* s = strings.TrimSpace(s); if s == "" { return 0 }
CountTrimSpace ==
    /\ countPC = "trim"
    /\ countS' = TrimSpace(countS)
    /\ IF countS' = ""
       THEN countOut' = 0 /\ countPC' = "assign"
       ELSE countPC' = "unit" /\ UNCHANGED countOut
    /\ UNCHANGED <<outsideCount, countKey, countIn, multiplier, num, counters>>

\* the unit: multiplier and s without the unit
CountUnit ==
    /\ countPC = "unit"
    /\ multiplier' = UnitMultiplier(countS).multiplier
    /\ countS' = UnitMultiplier(countS).s
    /\ countPC' = "scan"
    /\ UNCHANGED <<outsideCount, countKey, countIn, num, countOut, counters>>

\* fmt.Sscanf(s, "%f", &num)
CountSscanf ==
    /\ countPC = "scan"
    /\ num' = Sscanf(countS)
    /\ countPC' = "return"
    /\ UNCHANGED <<outsideCount, countKey, countIn, countS, multiplier, countOut,
                   counters>>

\* return int(num * float64(multiplier))
CountReturn ==
    /\ countPC = "return"
    /\ countOut' = MulToInt(num, multiplier)
    /\ countPC' = "assign"
    /\ UNCHANGED <<outsideCount, countKey, countIn, countS, multiplier, num,
                   counters>>

\* content.LikeCount = ... (or the counter of the key that was read)
AssignCounter ==
    /\ countPC = "assign"
    /\ counters' = [counters EXCEPT ![CounterOf[countKey]] = countOut]
    /\ countPC' = "done"
    /\ UNCHANGED <<outsideCount, countKey, countIn, countS, multiplier, num,
                   countOut>>

NextCount ==
    \/ CallParseCount
    \/ CountTrimSpace
    \/ CountUnit
    \/ CountSscanf
    \/ CountReturn
    \/ AssignCounter

\* one counter of one extracted record
SpecCount == Init /\ [][NextCount]_vars

(* ============================== claims ================================= *)
\* positions of an item goroutine inside processSingleURL
InPipeline == {"create", "crawl", "analyze", "images", "save", "failUpdate",
               "incSuccess", "incFailed"}

\* positions after processSingleURL returned
Left == {"release", "wgDone", "done"}

Range(f) == {f[k] : k \in DOMAIN f}

\* the step in which CreateBatchAnalyze answers the pending request
Handles == req /= NoReq /\ req' = NoReq

(* ------------------------------- C1 ------------------------------------ *)
\* C1: in every reachable state of a batch, during and after execution,
\* success_count + failed_count is at most total_count.
C1_CountersBounded ==
    task.exists => task.success_count + task.failed_count <= task.total_count

C1_Witness ==
    /\ task.exists
    /\ task.total_count = 3
    /\ task.success_count = 1
    /\ task.failed_count = 2
    /\ \E i \in Items : pc[i] = "release"

C3_TerminalStatus ==
    (task.exists /\ task.status /= BatchTaskStatusProcessing) =>
        /\ task.status \in {BatchTaskStatusCompleted, BatchTaskStatusFailed}
        /\ task.status = BatchTaskStatusFailed
                <=> task.failed_count = task.total_count
        /\ task.status = BatchTaskStatusCompleted => task.success_count >= 1

C3_Witness ==
    /\ task.exists
    /\ task.status = BatchTaskStatusCompleted
    /\ task.total_count = 3
    /\ task.failed_count = 2

(* ------------------------------- C4 ------------------------------------ *)
\* C4: the terminal status is computed only after every item goroutine has
\* returned: from the moment wg.Wait returns no item is still running, the
\* row the status is computed from holds one increment per item, and the
\* stored counters never differ from it afterwards.
C4_Barrier ==
    /\ orch \in {"find", "update", "returned"} =>
            /\ \A i \in Items : pc[i] = "done"
            /\ wg = 0
    /\ loaded.exists =>
            /\ loaded.success_count + loaded.failed_count = Len(urls)
            /\ task.success_count = loaded.success_count
            /\ task.failed_count = loaded.failed_count
    /\ (task.exists /\ task.status /= BatchTaskStatusProcessing) =>
            \A i \in Items : pc[i] = "done"

C4_Witness ==
    /\ orch = "update"
    /\ Len(urls) = 3
    /\ loaded.success_count = 2
    /\ loaded.failed_count = 1

C6_AtMostTwoInFlight ==
    /\ Cardinality({i \in Items : pc[i] \in InPipeline}) <= 2
    /\ \A i \in Items : pc[i] \in {"unborn", "acquire"} =>
            ~rows[i].exists /\ ~project[i].exists

C6_Witness ==
    /\ Cardinality({i \in Items : pc[i] \in InPipeline}) = 2
    /\ \E i \in Items : pc[i] = "acquire"

(* ------------------------------- C7 ------------------------------------ *)
\* C7: in a batch of 3 items where text analysis fails for exactly one item
\* and every other step of every item succeeds, the two other items end
\* 'analyzed', the counters end as success 2 / failed 1, and the batch is
\* finalized as 'completed'.
C7_Isolation ==
    (/\ Len(urls) = 3
     /\ \A i \in Items : pc[i] = "done"
     /\ Cardinality({i \in Items : fault[i] = "analyze"}) = 1
     /\ Cardinality({i \in Items : fault[i] = "none"}) = 2)
    =>
        /\ \A i \in Items : fault[i] = "none" =>
                rows[i].exists /\ rows[i].status = ProjectStatusAnalyzed
        /\ task.success_count = 2
        /\ task.failed_count = 1
        /\ (orch = "returned" /\ orchFault = "none") =>
                task.status = BatchTaskStatusCompleted

C7_Witness ==
    /\ Len(urls) = 3
    /\ fault = <<"none", "analyze", "none">>
    /\ orch = "returned"
    /\ task.status = BatchTaskStatusCompleted
    /\ task.success_count = 2

(* ------------------------------- C8 ------------------------------------ *)
\* index of the first occurrence of x in the list s
FirstIndex(s, x) == CHOOSE k \in DOMAIN s : s[k] = x /\ \A m \in 1..(k - 1) : s[m] /= x

\* u lists every string of the set d once, in the order of first occurrence
\* in s
FirstOccurrences(u, s, d) ==
    /\ Range(u) = d
    /\ Len(u) = Cardinality(d)
    /\ \A i, j \in DOMAIN u : i < j => FirstIndex(s, u[i]) < FirstIndex(s, u[j])

\* C8 as claimed: an accepted submission keeps the first occurrence of each
\* distinct string of the list, and total_count is the number of distinct
\* strings.
C8_DedupAllStrings ==
    [][(Handles /\ httpResp'.code = CodeSuccess) =>
            /\ FirstOccurrences(urls', req.urls, Range(req.urls))
            /\ task'.total_count = Cardinality(Range(req.urls))]_vars

\* C8 as amended: an accepted submission drops empty strings and keeps the
\* first occurrence of each distinct non-empty URL (case-sensitive exact
\* match) in its original relative order; total_count is the number of
\* distinct non-empty URLs, and the spawn loop launches exactly one item
\* goroutine per such URL.
C8_DedupNonEmpty ==
    /\ [][(Handles /\ httpResp'.code = CodeSuccess) =>
            /\ FirstOccurrences(urls', req.urls, Range(req.urls) \ {""})
            /\ task'.total_count = Cardinality(Range(req.urls) \ {""})
            /\ DOMAIN pc' = 1..Cardinality(Range(req.urls) \ {""})]_vars
    /\ [](orch \in {"wait", "find", "update", "returned"} =>
            /\ \A i \in Items : pc[i] /= "unborn"
            /\ DOMAIN pc = 1..task.total_count)
    /\ [][\A i \in DOMAIN pc : pc[i] /= "unborn" => pc'[i] /= "unborn"]_vars

C8_Witness ==
    /\ httpResp.code = CodeSuccess
    /\ reqLen = 3
    /\ task.total_count = 2
    /\ urls = <<"a", "b">>
    /\ orch = "wait"
    /\ wg = 2

(* ------------------------------- C9 ------------------------------------ *)
\* C9: a submission whose list has no URL left after de-duplication is
\* rejected, creating no batch record and launching no processing; no
\* persisted batch has total_count = 0.
C9_EmptyRejected ==
    /\ [][(Handles /\ Range(req.urls) \subseteq {""}) =>
            /\ httpResp'.code /= CodeSuccess
            /\ ~task'.exists
            /\ orch' = "none"
            /\ pc' = <<>>]_vars
    /\ [](task.exists => task.total_count >= 1)
    /\ [](orch /= "none" => task.exists)

C9_Witness ==
    /\ httpResp.code = CodeBadRequest
    /\ httpResp.msg = "no_valid_url"
    /\ reqLen = 2
    /\ ~task.exists
    /\ orch = "none"

(* ------------------------------- C10 ----------------------------------- *)
\* C10: every item counted in failed_count appears in the item list that
\* GetBatchStatus returns, with a non-empty reason string.
C10_FailedItemsListedWithReason ==
    (gbsTask.exists /\ gbsTask.failed_count = task.failed_count) =>
        \A i \in Items :
            (pc[i] \in Left /\ fault[i] /= "none") =>
                \E p \in GbsResponse.projects :
                    p.id = i /\ p.error_message /= ""

(* ----------------------------------------------------------------------- *)
\* C11: a failure of image analysis never fails the item.  The image step
\* always continues to the merge-and-save step without recording a failure;
\* when the final record write succeeds the persisted record is 'analyzed',
\* holds the text analysis and holds an image-analysis entry only if the image
\* analysis succeeded; and the item then adds one to success_count and
\* nothing to failed_count.
C11_ImageFailureNeverFailsItem ==
    /\ [][\A i \in Items :
            pc[i] = "images" /\ pc'[i] # "images"
                => pc'[i] = "save" /\ fault'[i] = "none"]_vars
    /\ [][\A i \in Items :
            pc[i] = "save" /\ pc'[i] # "save" /\ fault'[i] = "none"
                => /\ pc'[i] = "incSuccess"
                   /\ rows'[i].status = ProjectStatusAnalyzed
                   /\ rows'[i].analysis =
                        IF project[i].image_result THEN "text+image"
                                                   ELSE "text"]_vars
    /\ [][\A i \in Items :
            pc[i] = "incSuccess" /\ pc'[i] # "incSuccess"
                => /\ task'.success_count = task.success_count + 1
                   /\ task'.failed_count = task.failed_count]_vars

\* an item whose image analysis ran and failed has saved its text analysis
\* and stands before the success increment
C11_Witness ==
    \E i \in Items :
        /\ pc[i] = "incSuccess"
        /\ project[i].images /\ settings.imageKey
        /\ ~project[i].image_result
        /\ rows[i].status = ProjectStatusAnalyzed
        /\ rows[i].analysis = "text"

(* ------------------------------- C20 ----------------------------------- *)
\* C20: the stored status of a batch only moves forward.  The row is created
\* with status 'processing'; it is never deleted; its status changes at most
\* once, from 'processing' to 'completed' or 'failed', and only by the final
\* write of processBatchTask; a terminal status never changes again.
C20_StatusOnlyMovesForward ==
    [][/\ (~task.exists /\ task'.exists
            => task'.status = BatchTaskStatusProcessing)
       /\ (task.exists
            => /\ task'.exists
               /\ \/ task'.status = task.status
                  \/ /\ task.status = BatchTaskStatusProcessing
                     /\ task'.status \in {BatchTaskStatusCompleted,
                                          BatchTaskStatusFailed}
                     /\ orch = "update" /\ orch' = "returned")]_vars

\* the final write has stored a terminal status and a status query that
\* started earlier still holds the 'processing' row
C20_Witness ==
    /\ task.exists
    /\ task.status \in {BatchTaskStatusCompleted, BatchTaskStatusFailed}
    /\ orch = "returned"
    /\ gbsTask.exists
    /\ gbsTask.status = BatchTaskStatusProcessing

(* ------------------------------- C12 ----------------------------------- *)
\* C12: a crawl never raises and its outcome is never partially populated.
\* Every way through CrawlerManager.Crawl and XHSCrawler.Crawl ends with an
\* outcome; a successful outcome has content and an empty reason, a failed
\* outcome has no content and a non-empty reason.
C12_OutcomeNeverPartial ==
    /\ crawlPC = "returned" =>
        /\ crawlResult /= NoContent
        /\ crawlResult.Success =>
            crawlResult.Content /= NoContent /\ crawlResult.Error = NoError
        /\ ~crawlResult.Success =>
            crawlResult.Content = NoContent /\ crawlResult.Error /= NoError
    /\ crawlPC /= "returned" => crawlResult = NoContent

\* the page was fetched and read but nothing could be extracted from it
C12_Witness ==
    /\ crawlPC = "returned"
    /\ requests = 1
    /\ html /= NoPage
    /\ ~crawlResult.Success
    /\ crawlResult.Error =
        "failed to parse content: failed to extract content from page"

(* ------------------------------- C13 ----------------------------------- *)
\* C13: parseContent returns either a record whose title and body are not
\* both empty, or an error; it returns the error exactly when the embedded
\* state and the metadata tags both give neither a title nor a body.
C13_TitleOrBody ==
    crawlPC = "returned" /\ html /= NoPage =>
        LET json == extractFromJSON(html, NewNoteContent(noteID)).content
            meta == extractFromHTML(html, NewNoteContent(noteID)).content
            nothing == /\ json.Title = "" /\ json.Content = ""
                       /\ meta.Title = "" /\ meta.Content = ""
        IN  /\ crawlResult.Success =>
                ~(crawlResult.Content.Title = ""
                    /\ crawlResult.Content.Content = "")
            /\ ~crawlResult.Success <=> nothing

\* a record with a title and no body: the embedded state has only a title
\* and the page has no metadata tags
C13_Witness ==
    /\ crawlPC = "returned"
    /\ html /= NoPage
    /\ html.state = "note" /\ html.og_title = "" /\ html.og_description = ""
    /\ crawlResult.Success
    /\ crawlResult.Content.Title = "T1"
    /\ crawlResult.Content.Content = ""

(* ------------------------------- C14 ----------------------------------- *)
\* C14: whenever the embedded state yields a title or a body, the returned
\* title, body and image list are exactly those of the embedded state and
\* hold nothing taken from the og: tags.
C14_EmbeddedStateWins ==
    crawlPC = "returned" /\ html /= NoPage =>
        LET json == extractFromJSON(html, NewNoteContent(noteID)).content
        IN  json.Title /= "" \/ json.Content /= "" =>
                /\ crawlResult.Success
                /\ crawlResult.Content.Title = json.Title
                /\ crawlResult.Content.Content = json.Content
                /\ crawlResult.Content.Images = json.Images

(* ------------------------------- C15 ----------------------------------- *)
\* C15: for a url whose detected platform is Unknown, CrawlerManager.Crawl
\* returns at once a failure with platform 'unknown' and reason
\* "unsupported platform"; no crawler is invoked and no request is sent.
C15_UnknownPlatform ==
    crawlPC /= "idle" /\ platform = PlatformUnknown =>
        /\ crawlPC = "returned"
        /\ crawlResult = [Success |-> FALSE, Platform |-> "unknown",
                          Content |-> NoContent,
                          Error |-> "unsupported platform"]
        /\ invoked = NoCrawler
        /\ requests = 0

\* a url without any known domain, on a registry with two crawlers
C15_Witness ==
    /\ crawlPC = "returned"
    /\ crawlParts = <<"/explore/", "a1B">>
    /\ platform = PlatformUnknown
    /\ crawlers[PlatformWechat] /= NoCrawler
    /\ ~crawlResult.Success

XHSDomains ==
    {"xiaohongshu.com", "XiaoHongShu.COM", "xhslink.com", "XHSLink.com"}
WechatDomains == {"mp.weixin.qq.com"}
ExpectedPlatform(parts) ==
    IF Range(parts) \cap XHSDomains /= {} THEN PlatformXiaohongshu
    ELSE IF Range(parts) \cap WechatDomains /= {} THEN PlatformWechat
    ELSE PlatformUnknown

\* C17: detectPlatform depends on the url only.  A url that holds the
\* domain xiaohongshu.com or xhslink.com in any letter case (the canonical,
\* the discovery-path and the short-link form among them) is 'xiaohongshu',
\* a url that holds none of the known domains is 'unknown', and the
\* detection changes nothing in the registry.
C17_DetectPlatform ==
    /\ [](crawlPC /= "idle" => platform = ExpectedPlatform(crawlParts))
    /\ [][crawlPC = "idle" /\ crawlPC' /= "idle" => crawlers' = crawlers]_vars

\* a short link written in capitals is detected as xiaohongshu
C17_Witness ==
    /\ crawlPC /= "idle"
    /\ crawlParts = <<"XHSLink.com", "/", "a1B">>
    /\ platform = PlatformXiaohongshu

(* ------------------------------- C18 ----------------------------------- *)
\* a number as a reader writes it: digits with at most one period, the
\* first character a digit
NumberShape(s) ==
    /\ Len(s) > 0
    /\ IsDigit(CharAt(s, 1))
    /\ \A i \in 1..Len(s) : IsDigit(CharAt(s, i)) \/ CharAt(s, i) = "."
    /\ Cardinality({i \in 1..Len(s) : CharAt(s, i) = "."}) <= 1

\* that number times m, truncated to an integer
ExactTimes(s, m) ==
    LET dot == IndexByte(s, ".")
        k == IF dot = 0 THEN 0 ELSE Len(s) - dot
    IN  (DigitsValue(ReplaceAll(s, ".")) * m) \div Pow(10, k)

\* s is a number followed by the unit
NumberWithUnit(s, unit) ==
    /\ Len(s) > 1
    /\ CharAt(s, Len(s)) = unit
    /\ NumberShape(SubSeq(s, 1, Len(s) - 1))

C19_CountersNonNegative ==
    \A f \in DOMAIN counters : counters[f] >= 0

(* ------------------------------- C21 ----------------------------------- *)
\* C21: every invocation of processSingleURL reports exactly once.  At every
\* moment success_count is the number of items that returned without a
\* failed step and failed_count the number of items that returned after a
\* failed step (record creation, crawl, text analysis or final write); an
\* item that is still running has not been counted, and every return is
\* preceded by exactly one increment of exactly one counter.
C21_ReportsExactlyOnce ==
    /\ [](task.exists =>
            /\ task.success_count =
                Cardinality({i \in Items : pc[i] \in Left /\ fault[i] = "none"})
            /\ task.failed_count =
                Cardinality({i \in Items : pc[i] \in Left /\ fault[i] /= "none"}))
    /\ [][\A i \in Items :
            pc[i] \notin Left /\ pc'[i] \in Left =>
                \/ /\ task'.success_count = task.success_count + 1
                   /\ task'.failed_count = task.failed_count
                \/ /\ task'.success_count = task.success_count
                   /\ task'.failed_count = task.failed_count + 1]_vars

\* three items have returned: one could not be created, one could not be
\* written at the end, one succeeded
C21_Witness ==
    /\ Len(urls) = 3
    /\ \A i \in Items : pc[i] \in Left
    /\ fault = <<"create", "save", "none">>
    /\ task.success_count = 1
    /\ task.failed_count = 2

(* ------------------------------- C22 ----------------------------------- *)
\* the steps of processSingleURL that follow a successful text analysis
AfterAnalysis == {"images", "save", "incSuccess"}

\* C22: an item whose crawl succeeded and whose text analysis failed keeps a
\* record of status 'draft' without analysis result (the write of lines
\* 361-362 is applied), goes straight from the failed analysis to the
\* write of the record and the failure increment, never enters image
\* analysis, merge or the final write, adds one to failed_count and never
\* changes success_count.
C22_AnalysisFailure ==
    /\ [](\A i \in Items : fault[i] = "analyze" =>
            /\ rows[i].exists
            /\ rows[i].status = ProjectStatusDraft
            /\ rows[i].analysis = "none"
            /\ pc[i] \notin AfterAnalysis
            /\ pc[i] \in Left \cup {"incFailed"} =>
                    rows[i].source_content = ContentJSON)
    /\ [][\A i \in Items :
            /\ pc[i] = "analyze" /\ fault'[i] = "analyze" =>
                    /\ pc'[i] = "failUpdate"
                    /\ project'[i].status = ProjectStatusDraft
                    /\ task' = task
            /\ fault[i] = "analyze" /\ pc'[i] /= pc[i] =>
                    /\ task'.success_count = task.success_count
                    /\ task'.failed_count = task.failed_count +
                            (IF pc[i] = "incFailed" THEN 1 ELSE 0)]_vars

\* an item of a user with an image key whose text analysis failed has
\* returned: the recorded row is a draft that holds the crawled content
C22_Witness ==
    \E i \in Items :
        /\ fault[i] = "analyze"
        /\ pc[i] = "done"
        /\ settings.imageKey
        /\ rows[i].status = ProjectStatusDraft
        /\ rows[i].source_content = ContentJSON
        /\ task.failed_count >= 1

(* ------------------------------- C23 ----------------------------------- *)
\* the steps of processSingleURL that follow a successful crawl
AfterCrawl == {"analyze"} \cup AfterAnalysis

C24_RawContentVisibleDuringAnalysis ==
    \A i \in Items :
        pc[i] = "analyze" =>
            /\ rows[i].exists
            /\ rows[i].source_content = ContentJSON

(* ------------------------------- C25 ----------------------------------- *)
\* none of the three patterns matches the url as it was given
NoPatternMatches(url) ==
    \A k \in 1..Len(NoteIDPatterns) :
        ~FindStringSubmatch(NoteIDPatterns[k], url).matched

\* the xiaohongshu crawler was called and has returned
XhsReturned == crawlPC = "returned" /\ invoked = XHSCrawler.name

\* C25 as stated: when no pattern matches the url, the xiaohongshu crawler
\* returns a Failure whose reason is "invalid url for platform" and makes no
\* HTTP request.
C25_InvalidURLAsStated ==
    XhsReturned /\ NoPatternMatches(crawlURL) =>
        /\ ~crawlResult.Success
        /\ crawlResult.Error = "invalid url for platform"
        /\ requests = 0

\* C25 amended: when no pattern matches the url as given, the xiaohongshu
\* crawler returns a Failure of platform xiaohongshu without content whose
\* reason is "invalid xiaohongshu url: " followed by the url, and makes no
\* HTTP request; when a pattern matches, the note id is the capture of the
\* first pattern that matches and the crawler goes on.
C25_InvalidURL ==
    /\ XhsReturned /\ NoPatternMatches(crawlURL) =>
        /\ crawlResult = Failure(PlatformXiaohongshu,
                                 "invalid xiaohongshu url: " \o crawlURL)
        /\ crawlResult.Content = NoContent
        /\ noteID = ""
        /\ html = NoPage
        /\ requests = 0
    /\ invoked = XHSCrawler.name /\ crawlPC /= "parseNoteID"
            /\ ~NoPatternMatches(crawlURL) =>
        \E k \in 1..Len(NoteIDPatterns) :
            /\ FindStringSubmatch(NoteIDPatterns[k], crawlURL).matched
            /\ noteID = FindStringSubmatch(NoteIDPatterns[k], crawlURL).group
            /\ \A j \in 1..(k - 1) :
                ~FindStringSubmatch(NoteIDPatterns[j], crawlURL).matched

\* a short link with an upper-case domain: detected as xiaohongshu, matched
\* by no pattern
C25_Witness ==
    /\ XhsReturned
    /\ crawlParts = <<"XHSLink.com", "/", "a1B">>
    /\ platform = PlatformXiaohongshu
    /\ crawlResult.Error = "invalid xiaohongshu url: XHSLink.com/a1B"
    /\ requests = 0

C27_PersistenceFailureAborts ==
    /\ [](\A i \in Items :
            /\ fault[i] = "create" =>
                    /\ ~rows[i].exists
                    /\ pc[i] \in Left \cup {"incFailed"}
            /\ fault[i] = "save" =>
                    /\ rows[i].exists
                    /\ rows[i].status = ProjectStatusDraft
                    /\ rows[i].analysis = "none"
                    /\ pc[i] \in Left \cup {"incFailed"})
    /\ [][\A i \in Items :
            /\ pc[i] = "create" /\ pc'[i] /= "create" =>
                    IF fault'[i] = "create"
                    THEN pc'[i] = "incFailed" /\ rows' = rows /\ task' = task
                    ELSE pc'[i] = "crawl"
            /\ pc[i] = "save" /\ pc'[i] /= "save" =>
                    IF fault'[i] = "save"
                    THEN pc'[i] = "incFailed" /\ rows' = rows /\ task' = task
                    ELSE pc'[i] = "incSuccess"
            /\ pc'[i] = "create" /\ pc[i] /= "create" => pc[i] = "acquire"
            /\ pc'[i] = "save" /\ pc[i] /= "save" =>
                    pc[i] \in {"analyze", "images"}
            /\ fault[i] \in {"create", "save"} /\ pc'[i] /= pc[i] =>
                    /\ task'.success_count = task.success_count
                    /\ task'.failed_count = task.failed_count +
                            (IF pc[i] = "incFailed" THEN 1 ELSE 0)]_vars

\* one item lost its Create call and another its final write; both have
\* returned and both were counted as failures
C27_Witness ==
    \E i, j \in Items :
        /\ fault[i] = "create" /\ pc[i] = "done"
        /\ fault[j] = "save" /\ pc[j] = "done"
        /\ rows[j].status = ProjectStatusDraft
        /\ task.failed_count = 2
        /\ task.success_count = 0

(* ------------------------------- C28 ----------------------------------- *)
\* the records of the batch whose persisted status is 'analyzed'
AnalyzedRows ==
    {i \in Items : rows[i].exists /\ rows[i].status = ProjectStatusAnalyzed}

\* C28: success_count of the batch row never exceeds the number of records
\* of the batch that are persisted as 'analyzed'; the record of an item is
\* 'analyzed' in the state in which the item increments success_count; and
\* the response of GetBatchStatus, whose counters were read before its
\* records, never shows more successes than analyzed records.
C28_SuccessesAreAnalyzed ==
    /\ [](task.exists => task.success_count <= Cardinality(AnalyzedRows))
    /\ [](gbsTask.exists =>
            GbsResponse.success_count <=
                Cardinality({p \in GbsResponse.projects :
                                p.status = ProjectStatusAnalyzed}))
    /\ [][\A i \in Items :
            pc'[i] /= pc[i] /\ task'.success_count /= task.success_count =>
                /\ i \in AnalyzedRows
                /\ rows' = rows]_vars
    /\ [][\A i \in Items : i \in AnalyzedRows => i \in AnalyzedRows']_vars

\* a status request read the batch row when one success was counted; since
\* then a second item has written its analysed record
C28_Witness ==
    /\ gbsTask.exists
    /\ gbsTask.success_count = 1
    /\ Cardinality(AnalyzedRows) = 2
    /\ task.success_count = 1

(* ------------------------------- C29 ----------------------------------- *)
\* C29: from the reload of the batch row to the return of processBatchTask
\* no item is left that could increment a counter, the copy that was loaded
\* carries the counters of the row, and the write of the whole row leaves
\* success_count, failed_count, total_count and user_id of the row as they
\* were immediately before it.
C29_FinalWriteKeepsCounters ==
    /\ [](orch = "update" =>
            /\ \A i \in Items : pc[i] = "done"
            /\ loaded.success_count = task.success_count
            /\ loaded.failed_count = task.failed_count)
    /\ [][orch = "update" /\ orch' = "returned" =>
            /\ task'.success_count = task.success_count
            /\ task'.failed_count = task.failed_count
            /\ task'.total_count = task.total_count
            /\ task'.user_id = task.user_id
            /\ task'.success_count + task'.failed_count = Len(urls)]_vars

\* the whole row was written back after one success and two failures
C29_Witness ==
    /\ orch = "returned"
    /\ orchFault = "none"
    /\ loaded = task
    /\ task.success_count = 1
    /\ task.failed_count = 2
    /\ task.status = BatchTaskStatusCompleted

(* ------------------------------- C30 ----------------------------------- *)
\* the items that hold a slot of the semaphore
Holders == {i \in Items : pc[i] \in InPipeline \cup {"release"}}

\* C30: the number of held slots is the number of items between their
\* acquire and their deferred release, whatever path they took; once a batch
\* was started, every item is admitted and returns, the join completes and
\* processBatchTask returns with no slot held and no item left.
C30_EveryBatchFinishes ==
    /\ [](sem = Cardinality(Holders))
    /\ [](orch \in {"find", "update", "returned"} =>
            /\ sem = 0
            /\ wg = 0
            /\ \A i \in Items : pc[i] = "done")
    /\ (orch = "loop") ~> (orch = "returned" /\ sem = 0)

\* a batch of three items that all failed early (create, crawl, text
\* analysis) has finished and holds no slot
C30_Witness ==
    /\ orch = "returned"
    /\ Len(urls) = 3
    /\ fault = <<"create", "crawl", "analyze">>
    /\ \A i \in Items : pc[i] = "done"
    /\ sem = 0

==========================================================================
